---- MODULE Spec2Model ----
(***************************************************************************)
(* File History & Rewind Engine (src/src/snapshot/FileHistory.ts) with the *)
(* checkpoint plugin hooks and the snapshot request handlers that drive it.*)
(*                                                                         *)
(* A file content is the sequence of its line tokens, as diffLines         *)
(* tokenizes it; every line of the model's files is one character followed *)
(* by a newline.  A working file or a blob is a record [content, mtime];   *)
(* a path (or blob name) outside the DOMAIN of the store does not exist.   *)
(* Wall-clock fields (timestamp, backupTime) are never read by the code    *)
(* and are left out; file mode bits are left out too.                      *)
(***************************************************************************)
EXTENDS Integers, Sequences, FiniteSets, TLC

\* ---------------------------------------------------------------- bounds
MaxSnapshots == 3
MaxLines == 1
MaxTime == 1
MaxSteps == 5
MaxTurnSteps == 7
MaxMessages == 3
MaxHookSteps == 5
MaxTrackSteps == 6
MaxListSteps == 5
MaxSessionSteps == 7

Paths == {"a.txt", "b.txt"}
Lines == {"x", "y"}

\* backupFileName: null
Null == <<>>

\* tool-call ids, parentUuid: null, and a uuid that no message of a journal has
ToolIds == {"t1", "t2"}
NullUuid == "null"
MissingUuid == "0"

VARIABLES
    files,           \* the workspace under cwd: path -> [content, mtime]
    blobs,           \* the session's backup directory: name -> [content, mtime]
    snapshots,       \* FileHistory.snapshots
    pendingBackups,  \* FileHistory.pendingBackups (insertion-ordered Map)
    trackedFiles,    \* FileHistory.trackedFiles
    now,             \* the filesystem clock, in mtime ticks
    lastCall,        \* the last rewind or preview call and what it returned
    journal,         \* the session journal: the lines appended, in order
    instances,       \* FileHistoryManager.instances: sessionId -> FileHistory object
    allocated,       \* number of FileHistory objects constructed so far
    steps,           \* number of operations performed so far
    turn,            \* history: the current turn: workspace at its start, paths
                     \* tracked and paths written in it
    past,            \* history: messageId -> workspace when its turn began and
                     \* the paths written since then
    clean,           \* history: no rewind has run yet
    walk,            \* filterMessages' parent walk: its position and locals
    current,         \* the session whose FileHistory object and backup
                     \* directory the variables above hold
    heap,            \* the other FileHistory objects: sessionId -> fields
    disk             \* the other backup directories: directory -> blobs

vars == <<files, blobs, snapshots, pendingBackups, trackedFiles, now, lastCall,
          journal, instances, allocated, steps, turn, past, clean, walk,
          current, heap, disk>>

\* the manager's map and its objects' identities
manager == <<instances, allocated>>

\* the session acted on and the objects and directories of the other sessions
sessions == <<current, heap, disk>>

hist == <<turn, past, clean>>

\* ------------------------------------------------------- contents, stores
RECURSIVE SeqsUpTo(_)
SeqsUpTo(n) ==
    IF n = 0 THEN {<<>>}
    ELSE LET S == SeqsUpTo(n - 1)
         IN  S \cup {Append(s, l) : s \in {t \in S : Len(t) = n - 1}, l \in Lines}

Contents == SeqsUpTo(MaxLines)

\* stat.size: every line is one character and a newline
Size(content) == Len(content) * 2

existsSync(store, k) == k \in DOMAIN store

Put(store, k, v) == [x \in DOMAIN store \cup {k} |-> IF x = k THEN v ELSE store[x]]

Remove(store, k) == [x \in DOMAIN store \ {k} |-> store[x]]

\* the visible state of a path: does it exist, and with which content
View(store, p) ==
    IF p \in DOMAIN store THEN [exists |-> TRUE, content |-> store[p].content]
    ELSE [exists |-> FALSE, content |-> <<>>]

Workspace(store) == [p \in Paths |-> View(store, p)]

\* ------------------------------- insertion-ordered maps (Map, Record keys)
Keys(m) == [i \in 1..Len(m) |-> m[i].path]

KeySet(m) == {m[i].path : i \in 1..Len(m)}

Has(m, p) == p \in KeySet(m)

Get(m, p) == m[CHOOSE i \in 1..Len(m) : m[i].path = p].meta

MapSet(m, p, meta) ==
    IF Has(m, p)
    THEN [i \in 1..Len(m) |-> IF m[i].path = p THEN [path |-> p, meta |-> meta] ELSE m[i]]
    ELSE Append(m, [path |-> p, meta |-> meta])

\* ----------------------------------------------------------- backup store
generateBackupFileName(relativePath, version) == <<relativePath, version>>

hasFileChanged(p, backupFileName) ==
    IF backupFileName = Null THEN existsSync(files, p)
    ELSE IF ~existsSync(files, p) THEN existsSync(blobs, backupFileName)
    ELSE IF ~existsSync(blobs, backupFileName) THEN TRUE
    ELSE \/ Size(files[p].content) # Size(blobs[backupFileName].content)
         \/ files[p].mtime # blobs[backupFileName].mtime

\* the meta createBackup returns
createBackupMeta(p, version) ==
    IF ~existsSync(files, p)
    THEN [backupFileName |-> Null, version |-> version]
    ELSE [backupFileName |-> generateBackupFileName(p, version), version |-> version]

\* createBackup that returns the meta without copying the file
createBackupBlobsNoCopy(p, version) == blobs

\* the backup directory after createBackup: copyFileSync, then utimesSync
createBackupBlobs(p, version) ==
    IF ~existsSync(files, p) THEN blobs
    ELSE Put(blobs, generateBackupFileName(p, version), files[p])

\* ------------------------------------------------------------ diff engine
RECURSIVE LCS(_, _)
LCS(a, b) ==
    IF a = <<>> \/ b = <<>> THEN 0
    ELSE IF Head(a) = Head(b) THEN 1 + LCS(Tail(a), Tail(b))
    ELSE LET l == LCS(Tail(a), b)
             r == LCS(a, Tail(b))
         IN  IF l >= r THEN l ELSE r

\* diffLines(backupContent, currentContent), summed over added / removed
diffLines(backupContent, currentContent) ==
    LET common == LCS(backupContent, currentContent)
    IN  [insertions |-> Len(currentContent) - common,
         deletions |-> Len(backupContent) - common]

calculateDiff(fs, p, backupFileName) ==
    LET currentExists == existsSync(fs, p)
        backupExists == backupFileName # Null /\ existsSync(blobs, backupFileName)
    IN  IF ~currentExists /\ ~backupExists
        THEN [insertions |-> 0, deletions |-> 0]
        ELSE diffLines(IF backupExists THEN blobs[backupFileName].content ELSE <<>>,
                       IF currentExists THEN fs[p].content ELSE <<>>)

\* ----------------------------------------------------------------- rewind
restoreThrows(backupFileName) ==
    backupFileName # Null /\ ~existsSync(blobs, backupFileName)

\* restoreFile that leaves the working file alone when the backup is null
restoreFileNoUnlink(fs, p, backupFileName) ==
    IF backupFileName = Null THEN fs
    ELSE Put(fs, p, [content |-> blobs[backupFileName].content, mtime |-> now])

restoreFile(fs, p, backupFileName) ==
    IF backupFileName = Null THEN Remove(fs, p)
    ELSE Put(fs, p, [content |-> blobs[backupFileName].content, mtime |-> now])

\* findIndex whose "not found" is taken for the last position
findIndexOrLast(messageId) ==
    IF \E i \in 1..Len(snapshots) : snapshots[i].messageId = messageId
    THEN CHOOSE i \in 1..Len(snapshots) :
            /\ snapshots[i].messageId = messageId
            /\ \A j \in 1..(i - 1) : snapshots[j].messageId # messageId
    ELSE Len(snapshots)

findIndex(messageId) ==
    IF \E i \in 1..Len(snapshots) : snapshots[i].messageId = messageId
    THEN CHOOSE i \in 1..Len(snapshots) :
            /\ snapshots[i].messageId = messageId
            /\ \A j \in 1..(i - 1) : snapshots[j].messageId # messageId
    ELSE 0

hasSnapshot(messageId) == \E i \in 1..Len(snapshots) : snapshots[i].messageId = messageId

RECURSIVE AddAll(_, _)
AddAll(order, keys) ==
    IF keys = <<>> THEN order
    ELSE AddAll(IF \E i \in 1..Len(order) : order[i] = Head(keys)
                THEN order ELSE Append(order, Head(keys)),
                Tail(keys))

RECURSIVE allAffectedFiles(_, _)
allAffectedFiles(order, from) ==
    IF from > Len(snapshots) THEN order
    ELSE allAffectedFiles(AddAll(order, Keys(snapshots[from].trackedFileBackups)), from + 1)

targetBackupFileName(target, p) ==
    IF Has(target.trackedFileBackups, p)
    THEN Get(target.trackedFileBackups, p).backupFileName
    ELSE Null

NotFound ==
    [success |-> FALSE, error |-> "Snapshot not found", filesChanged |-> <<>>,
     insertions |-> 0, deletions |-> 0]

\* a rewind that rolls the workspace back when a restore throws
RECURSIVE rewindLoopRollback(_, _, _, _, _)
rewindLoopRollback(order, target, dryRun, fs, acc) ==
    IF order = <<>>
    THEN [files |-> fs,
          result |-> [success |-> TRUE, error |-> "", filesChanged |-> acc.filesChanged,
                      insertions |-> acc.insertions, deletions |-> acc.deletions]]
    ELSE LET p == Head(order)
             name == targetBackupFileName(target, p)
             diff == calculateDiff(fs, p, name)
             acc2 == [filesChanged |-> Append(acc.filesChanged, p),
                      insertions |-> acc.insertions + diff.insertions,
                      deletions |-> acc.deletions + diff.deletions]
         IN  IF diff.insertions > 0 \/ diff.deletions > 0
             THEN IF dryRun
                  THEN rewindLoopRollback(Tail(order), target, dryRun, fs, acc2)
                  ELSE IF restoreThrows(name)
                  THEN [files |-> files,
                        result |-> [success |-> FALSE, error |-> "Backup file not found",
                                    filesChanged |-> acc2.filesChanged,
                                    insertions |-> acc2.insertions,
                                    deletions |-> acc2.deletions]]
                  ELSE rewindLoopRollback(Tail(order), target, dryRun,
                                          restoreFile(fs, p, name), acc2)
             ELSE rewindLoopRollback(Tail(order), target, dryRun, fs, acc)

RECURSIVE rewindLoop(_, _, _, _, _)
rewindLoop(order, target, dryRun, fs, acc) ==
    IF order = <<>>
    THEN [files |-> fs,
          result |-> [success |-> TRUE, error |-> "", filesChanged |-> acc.filesChanged,
                      insertions |-> acc.insertions, deletions |-> acc.deletions]]
    ELSE LET p == Head(order)
             name == targetBackupFileName(target, p)
             diff == calculateDiff(fs, p, name)
             acc2 == [filesChanged |-> Append(acc.filesChanged, p),
                      insertions |-> acc.insertions + diff.insertions,
                      deletions |-> acc.deletions + diff.deletions]
         IN  IF diff.insertions > 0 \/ diff.deletions > 0
             THEN IF dryRun
                  THEN rewindLoop(Tail(order), target, dryRun, fs, acc2)
                  ELSE IF restoreThrows(name)
                  THEN [files |-> fs,
                        result |-> [success |-> FALSE, error |-> "Backup file not found",
                                    filesChanged |-> acc2.filesChanged,
                                    insertions |-> acc2.insertions,
                                    deletions |-> acc2.deletions]]
                  ELSE rewindLoop(Tail(order), target, dryRun, restoreFile(fs, p, name), acc2)
             ELSE rewindLoop(Tail(order), target, dryRun, fs, acc)

\* rewindToMessage as a function of the current state: the result it returns
\* and the workspace it leaves
rewindToMessage(messageId, dryRun) ==
    LET idx == findIndex(messageId)
    IN  IF idx = 0 THEN [files |-> files, result |-> NotFound]
        ELSE rewindLoop(allAffectedFiles(<<>>, idx), snapshots[idx], dryRun, files,
                        [filesChanged |-> <<>>, insertions |-> 0, deletions |-> 0])

\* the own-snapshot loop listing only the paths that measure a change
RECURSIVE ownLoopChangedOnly(_, _)
ownLoopChangedOnly(entries, acc) ==
    IF entries = <<>>
    THEN [success |-> TRUE, error |-> "", filesChanged |-> acc.filesChanged,
          insertions |-> acc.insertions, deletions |-> acc.deletions]
    ELSE LET diff == calculateDiff(files, Head(entries).path, Head(entries).meta.backupFileName)
         IN  ownLoopChangedOnly(Tail(entries),
                     [filesChanged |-> IF diff.insertions > 0 \/ diff.deletions > 0
                                       THEN Append(acc.filesChanged, Head(entries).path)
                                       ELSE acc.filesChanged,
                      insertions |-> acc.insertions + diff.insertions,
                      deletions |-> acc.deletions + diff.deletions])

RECURSIVE ownLoop(_, _)
ownLoop(entries, acc) ==
    IF entries = <<>>
    THEN [success |-> TRUE, error |-> "", filesChanged |-> acc.filesChanged,
          insertions |-> acc.insertions, deletions |-> acc.deletions]
    ELSE LET diff == calculateDiff(files, Head(entries).path, Head(entries).meta.backupFileName)
         IN  ownLoop(Tail(entries),
                     [filesChanged |-> Append(acc.filesChanged, Head(entries).path),
                      insertions |-> acc.insertions + diff.insertions,
                      deletions |-> acc.deletions + diff.deletions])

\* previewRewind that looks at the chosen snapshot only, whatever cumulative is
previewRewindOwn(messageId, cumulative) ==
    IF findIndex(messageId) = 0 THEN NotFound
    ELSE ownLoop(snapshots[findIndex(messageId)].trackedFileBackups,
                 [filesChanged |-> <<>>, insertions |-> 0, deletions |-> 0])

previewRewind(messageId, cumulative) ==
    IF cumulative THEN rewindToMessage(messageId, TRUE).result
    ELSE IF findIndex(messageId) = 0 THEN NotFound
    ELSE ownLoop(snapshots[findIndex(messageId)].trackedFileBackups,
                 [filesChanged |-> <<>>, insertions |-> 0, deletions |-> 0])

\* ------------------------------------------------------------------- Init
InitContents == {<<>>, <<"x">>}

\* the workspaces a session can start in, up to renaming the two paths: the
\* second path is taken empty only when the first one exists and is empty too
InitFiles ==
    {f \in UNION {[D -> [content : InitContents, mtime : {0}]] : D \in SUBSET Paths} :
        ("b.txt" \in DOMAIN f /\ f["b.txt"].content = <<>>)
            => ("a.txt" \in DOMAIN f /\ f["a.txt"].content = <<>>)}

NewTurn(fs) == [start |-> Workspace(fs), tracked |-> {}, changed |-> {}]

Init ==
    /\ files \in InitFiles
    /\ blobs = <<>>
    /\ snapshots = <<>>
    /\ pendingBackups = <<>>
    /\ trackedFiles = {}
    /\ now = 0
    /\ lastCall = [op |-> "none"]
    /\ journal = <<>>
    /\ instances = <<>>
    /\ allocated = 0
    /\ steps = 0
    /\ turn = NewTurn(files)
    /\ past = <<>>
    /\ clean = TRUE
    /\ walk = [pc |-> "idle"]
    /\ current = "s1"
    /\ heap = <<>>
    /\ disk = <<>>

\* ------------------------------------------------- FileHistory operations
previousBackup(p) ==
    IF snapshots # <<>> /\ Has(snapshots[Len(snapshots)].trackedFileBackups, p)
    THEN Get(snapshots[Len(snapshots)].trackedFileBackups, p)
    ELSE [backupFileName |-> Null, version |-> 0]

\* trackFile that keeps the pending entry a path already has
trackFileUpdateKeepFirst(p) ==
    /\ trackedFiles' = trackedFiles \cup {p}
    /\ IF ~hasFileChanged(p, previousBackup(p).backupFileName) \/ Has(pendingBackups, p)
       THEN UNCHANGED <<blobs, pendingBackups>>
       ELSE LET version == previousBackup(p).version + 1
            IN  /\ blobs' = createBackupBlobs(p, version)
                /\ pendingBackups' = MapSet(pendingBackups, p, createBackupMeta(p, version))
    /\ UNCHANGED <<files, snapshots, now>>

\* what trackFile does to the history and to the backup directory
trackFileUpdate(p) ==
    /\ trackedFiles' = trackedFiles \cup {p}
    /\ IF ~hasFileChanged(p, previousBackup(p).backupFileName)
       THEN UNCHANGED <<blobs, pendingBackups>>
       ELSE LET version == previousBackup(p).version + 1
            IN  /\ blobs' = createBackupBlobs(p, version)
                /\ pendingBackups' = MapSet(pendingBackups, p, createBackupMeta(p, version))
    /\ UNCHANGED <<files, snapshots, now>>

trackFile(p) == trackFileUpdate(p) /\ lastCall' = [op |-> "none"]

\* what trackNewFile does to the history
trackNewFileUpdate(p) ==
    /\ trackedFiles' = trackedFiles \cup {p}
    /\ pendingBackups' = MapSet(pendingBackups, p,
            [backupFileName |-> Null, version |-> previousBackup(p).version + 1])
    /\ UNCHANGED <<files, blobs, snapshots, now>>

trackNewFile(p) == trackNewFileUpdate(p) /\ lastCall' = [op |-> "none"]

\* hasPendingBackups that answers yes whatever the pending set holds
hasPendingBackupsAlways == TRUE

hasPendingBackups == Len(pendingBackups) > 0

\* createSnapshot that forgets to clear the pending set
createSnapshotKeepPending(messageId) ==
    /\ IF ~hasPendingBackups
       THEN UNCHANGED <<snapshots, pendingBackups>>
       ELSE /\ Len(snapshots) < MaxSnapshots
            /\ snapshots' = Append(snapshots,
                    [messageId |-> messageId, trackedFileBackups |-> pendingBackups])
            /\ UNCHANGED pendingBackups
    /\ lastCall' = [op |-> "createSnapshot",
                    returned |-> IF hasPendingBackups THEN "snapshot" ELSE "null"]
    /\ UNCHANGED <<files, blobs, trackedFiles, now>>

createSnapshot(messageId) ==
    /\ IF ~hasPendingBackups
       THEN UNCHANGED <<snapshots, pendingBackups>>
       ELSE /\ Len(snapshots) < MaxSnapshots
            /\ snapshots' = Append(snapshots,
                    [messageId |-> messageId, trackedFileBackups |-> pendingBackups])
            /\ pendingBackups' = <<>>
    /\ lastCall' = [op |-> "createSnapshot",
                    returned |-> IF hasPendingBackups THEN "snapshot" ELSE "null"]
    /\ UNCHANGED <<files, blobs, trackedFiles, now>>

\* what the caller of the previous operation saw, kept by the next rewind
Summary(call) ==
    IF call.op = "rewindToMessage"
    THEN [op |-> call.op, messageId |-> call.messageId, result |-> call.result]
    ELSE [op |-> call.op]

\* a rewind that drops the snapshots after its target
RewindTruncates(messageId) ==
    LET r == rewindToMessage(messageId, FALSE)
    IN  /\ files' = r.files
        /\ snapshots' = IF findIndex(messageId) = 0 THEN snapshots
                        ELSE SubSeq(snapshots, 1, findIndex(messageId))
        /\ lastCall' = [op |-> "rewindToMessage", messageId |-> messageId,
                        result |-> r.result, before |-> Workspace(files),
                        previous |-> Summary(lastCall)]
        /\ UNCHANGED <<blobs, pendingBackups, trackedFiles, now>>

Rewind(messageId) ==
    LET r == rewindToMessage(messageId, FALSE)
    IN  /\ files' = r.files
        /\ lastCall' = [op |-> "rewindToMessage", messageId |-> messageId,
                        result |-> r.result, before |-> Workspace(files),
                        previous |-> Summary(lastCall)]
        /\ UNCHANGED <<blobs, snapshots, pendingBackups, trackedFiles, now>>

Preview(messageId, cumulative) ==
    /\ lastCall' = [op |-> "previewRewind", messageId |-> messageId,
                    cumulative |-> cumulative,
                    result |-> previewRewind(messageId, cumulative)]
    /\ UNCHANGED <<files, blobs, snapshots, pendingBackups, trackedFiles, now>>

\* ---------------------------------------- the workspace's writers, and time
WriteFile(p, content) ==
    /\ files' = Put(files, p, [content |-> content, mtime |-> now])
    /\ lastCall' = [op |-> "none"]
    /\ UNCHANGED <<blobs, snapshots, pendingBackups, trackedFiles, now>>

DeleteFile(p) ==
    /\ existsSync(files, p)
    /\ files' = Remove(files, p)
    /\ lastCall' = [op |-> "none"]
    /\ UNCHANGED <<blobs, snapshots, pendingBackups, trackedFiles, now>>

Tick ==
    /\ now < MaxTime
    /\ now' = now + 1
    /\ lastCall' = [op |-> "none"]
    /\ UNCHANGED <<files, blobs, snapshots, pendingBackups, trackedFiles>>

\* a blob is removed from the backup directory from outside the engine
LoseBlob(name) ==
    /\ existsSync(blobs, name)
    /\ blobs' = Remove(blobs, name)
    /\ lastCall' = [op |-> "none"]
    /\ UNCHANGED <<files, snapshots, pendingBackups, trackedFiles, now>>

\* ---------------------------------------------------- the session journal
\* the serialized snapshot: messageId and, per path, backupFileName and version
serializeSnapshot(snapshot) ==
    [messageId |-> snapshot.messageId,
     trackedFileBackups |->
        [i \in 1..Len(snapshot.trackedFileBackups) |->
            [path |-> snapshot.trackedFileBackups[i].path,
             meta |-> [backupFileName |-> snapshot.trackedFileBackups[i].meta.backupFileName,
                       version |-> snapshot.trackedFileBackups[i].meta.version]]]]

\* JsonlLogger.addSnapshot: one line, tagged with its type
addSnapshot(log, serialized) == Append(log, [type |-> "snapshot", snapshot |-> serialized])

\* what a handler does after createSnapshot: nothing when it returned null,
\* otherwise the snapshot, which has at least one file, is appended
persistSnapshot ==
    journal' = IF lastCall'.returned = "null" THEN journal
               ELSE addSnapshot(journal, serializeSnapshot(snapshots'[Len(snapshots')]))

\* message ids are opaque: the ids in use, and the next unused one
Used == {snapshots[i].messageId : i \in 1..Len(snapshots)}

Fresh ==
    IF "m1" \notin Used THEN "m1" ELSE IF "m2" \notin Used THEN "m2" ELSE "m3"

\* one more operation on the FileHistory object under study; which objects
\* the manager holds is left as it is
Step(bound) ==
    steps < bound /\ steps' = steps + 1 /\ UNCHANGED <<manager, walk, sessions>>

\* ------------------------------------- requests of the snapshot message bus
snapshotTrackFile(p, isNewFile) ==
    /\ IF isNewFile THEN trackNewFile(p) ELSE trackFile(p)
    /\ Step(MaxSteps) /\ UNCHANGED <<hist, journal>>

snapshotCreate(messageId) ==
    createSnapshot(messageId) /\ persistSnapshot /\ Step(MaxSteps) /\ UNCHANGED hist

snapshotRewind(messageId) ==
    Rewind(messageId) /\ Step(MaxSteps) /\ UNCHANGED <<hist, journal>>

snapshotPreviewRewind(messageId, cumulative) ==
    Preview(messageId, cumulative) /\ Step(MaxSteps) /\ UNCHANGED <<hist, journal>>

Edit(p, content) == WriteFile(p, content) /\ Step(MaxSteps) /\ UNCHANGED <<hist, journal>>

Unlink(p) == DeleteFile(p) /\ Step(MaxSteps) /\ UNCHANGED <<hist, journal>>

Clock == Tick /\ Step(MaxSteps) /\ UNCHANGED <<hist, journal>>

BlobLost(name) == LoseBlob(name) /\ Step(MaxSteps) /\ UNCHANGED <<hist, journal>>

\* the requests that change the history or the workspace, with the clock; the
\* read-only preview is served in NextFault
Next ==
    \/ \E p \in Paths, isNewFile \in BOOLEAN : snapshotTrackFile(p, isNewFile)
    \/ \E m \in Used \cup {Fresh} : snapshotCreate(m)
    \/ \E m \in Used \cup {Fresh} : snapshotRewind(m)
    \/ \E p \in Paths, c \in Contents : Edit(p, c)
    \/ \E p \in Paths : Unlink(p)
    \/ Clock

Spec == Init /\ [][Next]_vars

\* the requests served while blobs may go missing; the clock stands still here:
\* diff and restore read contents only, never an mtime
NextFault ==
    \/ \E p \in Paths, isNewFile \in BOOLEAN : snapshotTrackFile(p, isNewFile)
    \/ \E m \in Used \cup {Fresh} : snapshotCreate(m)
    \/ \E m \in Used \cup {Fresh} : snapshotRewind(m)
    \/ \E m \in Used \cup {Fresh}, c \in BOOLEAN : snapshotPreviewRewind(m, c)
    \/ \E p \in Paths, c \in Contents : Edit(p, c)
    \/ \E p \in Paths : Unlink(p)
    \/ \E name \in DOMAIN blobs : BlobLost(name)

SpecFault == Init /\ [][NextFault]_vars

\* ------------------------------------------------- the session's messages
\* content parts; a string content is modelled as one text part
TextPart == [type |-> "text"]
ToolUse(id) == [type |-> "tool_use", id |-> id]
ToolResult(id) == [type |-> "tool-result", toolCallId |-> id]

MessageShapes ==
    {[role |-> "user", content |-> <<TextPart>>],
     [role |-> "assistant", content |-> <<TextPart>>],
     [role |-> "assistant", content |-> <<ToolUse("t1")>>],
     [role |-> "assistant", content |-> <<TextPart, ToolUse("t1")>>],
     [role |-> "assistant", content |-> <<ToolUse("t1"), ToolUse("t2")>>],
     [role |-> "tool", content |-> <<ToolResult("t1")>>],
     [role |-> "tool", content |-> <<ToolResult("t2")>>]}

\* the i-th line of a journal: a message whose uuid is its position and whose
\* parent is null, absent from the journal or an earlier line, or a config line
JournalLines(i) ==
    {[type |-> "message", uuid |-> ToString(i), parentUuid |-> parent,
      role |-> shape.role, content |-> shape.content] :
        parent \in {NullUuid, MissingUuid} \cup {ToString(j) : j \in 1..(i - 1)},
        shape \in MessageShapes}
    \cup {[type |-> "config"]}

getToolResultIds(messages) ==
    UNION {{messages[i].content[k].toolCallId :
                k \in {k \in DOMAIN messages[i].content :
                            messages[i].content[k].type = "tool-result"}} :
            i \in {i \in DOMAIN messages : messages[i].role = "tool"}}

getToolUseIds(messages) ==
    UNION {{messages[i].content[k].id :
                k \in {k \in DOMAIN messages[i].content :
                            messages[i].content[k].type = "tool_use"}} :
            i \in {i \in DOMAIN messages : messages[i].role = "assistant"}}

messageTypeOnly(messages) ==
    LET isMessage(message) == message.type = "message"
    IN  SelectSeq(messages, isMessage)

\* messageMap.set(uuid, message) in list order: the last message of a uuid stays
messageMap(messages) ==
    [uuid \in {messages[i].uuid : i \in DOMAIN messages} |->
        messages[CHOOSE i \in DOMAIN messages :
                    /\ messages[i].uuid = uuid
                    /\ \A j \in DOMAIN messages : messages[j].uuid = uuid => j <= i]]

\* the while loop of filterMessages, from currentMessage on
RECURSIVE walkPath(_, _, _)
walkPath(map, currentMessage, path) ==
    IF currentMessage.parentUuid = NullUuid
        THEN path \cup {currentMessage.uuid}
    ELSE IF currentMessage.parentUuid \notin DOMAIN map
        THEN path \cup {currentMessage.uuid}
    ELSE walkPath(map, map[currentMessage.parentUuid], path \cup {currentMessage.uuid})

\* an active path that holds every message
activePathAll(messages) == {messages[i].uuid : i \in DOMAIN messages}

activePath(messages) ==
    walkPath(messageMap(messages), messages[Len(messages)], {})

filteredByPath(messages) ==
    LET onPath(message) == message.uuid \in activePath(messages)
    IN  SelectSeq(messages, onPath)

\* a cleanup that finds every tool_use matched
unmatchedIdsNone(messages) == {}

unmatchedIds(messages) ==
    getToolUseIds(messages) \ getToolResultIds(messages)

hasUnmatchedToolUse(message, unmatched) ==
    /\ message.role = "assistant"
    /\ \E k \in DOMAIN message.content :
            /\ message.content[k].type = "tool_use"
            /\ message.content[k].id \in unmatched

filterMessages(messages) ==
    IF Len(messageTypeOnly(messages)) = 0 THEN <<>>
    ELSE LET filtered == filteredByPath(messageTypeOnly(messages))
             keep(message) == ~hasUnmatchedToolUse(message, unmatchedIds(filtered))
         IN  SelectSeq(filtered, keep)

\* ------------------------------------------------- the history manager
\* a reader that returns the snapshots of the retained messages only
loadSessionWithSnapshotsActive(log) ==
    LET retained == {filterMessages(log)[k].uuid : k \in DOMAIN filterMessages(log)}
        IsSnapshot(line) == line.type = "snapshot" /\ line.snapshot.messageId \in retained
        lines == SelectSeq(log, IsSnapshot)
    IN  [messages |-> filterMessages(log),
         snapshots |-> [i \in 1..Len(lines) |-> lines[i].snapshot]]

\* the reader of session.jsonl (an absent file reads as no line): the message
\* records, filtered, and the snapshot records in file order without their tag
loadSessionWithSnapshots(log) ==
    LET IsSnapshot(line) == line.type = "snapshot"
        lines == SelectSeq(log, IsSnapshot)
    IN  [messages |-> filterMessages(log),
         snapshots |-> [i \in 1..Len(lines) |-> lines[i].snapshot]]

\* new FileHistory({snapshots}): no pending backup, trackedFiles from the snapshots
FileHistoryNew(snaps) ==
    [snapshots |-> snaps,
     pendingBackups |-> <<>>,
     trackedFiles |-> UNION {KeySet(snaps[i].trackedFileBackups) : i \in 1..Len(snaps)}]

fromSession(serialized) ==
    FileHistoryNew(
        [i \in 1..Len(serialized) |->
            [messageId |-> serialized[i].messageId,
             trackedFileBackups |->
                [k \in 1..Len(serialized[i].trackedFileBackups) |->
                    [path |-> serialized[i].trackedFileBackups[k].path,
                     meta |-> [backupFileName |->
                                    serialized[i].trackedFileBackups[k].meta.backupFileName,
                               version |->
                                    serialized[i].trackedFileBackups[k].meta.version]]]]])

\* getOrCreate that never reads the journal
getOrCreateBlank(cached, log) ==
    IF cached # <<>> THEN cached[1] ELSE FileHistoryNew(<<>>)

\* cached: the instance the map holds for the session, if any
getOrCreate(cached, log) ==
    IF cached # <<>> THEN cached[1]
    ELSE LET existingSnapshots == loadSessionWithSnapshots(log).snapshots
         IN  IF Len(existingSnapshots) > 0
             THEN fromSession(existingSnapshots)
             ELSE FileHistoryNew(<<>>)

\* the session's instance is evicted (clear) and the next request's
\* getOrCreate builds a new one from the journal
managerReload ==
    LET fileHistory == getOrCreate(<<>>, journal)
    IN  /\ snapshots' = fileHistory.snapshots
        /\ pendingBackups' = fileHistory.pendingBackups
        /\ trackedFiles' = fileHistory.trackedFiles
        /\ lastCall' = [op |-> "getOrCreate"]
        /\ UNCHANGED <<files, blobs, now, journal>>

\* the create request when the append to session.jsonl throws: the error is
\* caught and logged, the snapshot stays in memory
snapshotCreateUnpersisted(messageId) ==
    /\ hasPendingBackups
    /\ createSnapshot(messageId)
    /\ UNCHANGED journal
    /\ Step(MaxSteps) /\ UNCHANGED hist

Reload == managerReload /\ Step(MaxSteps) /\ UNCHANGED hist

NextResume ==
    \/ \E p \in Paths, isNewFile \in BOOLEAN : snapshotTrackFile(p, isNewFile)
    \/ \E m \in Used \cup {Fresh} : snapshotCreate(m)
    \/ \E m \in Used \cup {Fresh} : snapshotCreateUnpersisted(m)
    \/ \E p \in Paths : Edit(p, <<"y">>)
    \/ \E p \in Paths : Unlink(p)
    \/ Reload

SpecResume == Init /\ [][NextResume]_vars

\* --------------------------------------------- hooks of the checkpoint plugin
\* the session the hooks run for
SessionId == "s1"

\* a parameter that is not given
NoPath == ""

\* history.messages is empty
NoMessage == [uuid |-> "", role |-> ""]

\* extractFilePath that takes the path of any tool
extractFilePathAnyTool(toolName, params) ==
    IF params.file_path # NoPath THEN params.file_path
    ELSE IF params.filePath # NoPath THEN params.filePath
    ELSE NoPath

extractFilePath(toolName, params) ==
    IF toolName \in {"write", "edit"}
    THEN IF params.file_path # NoPath THEN params.file_path
         ELSE IF params.filePath # NoPath THEN params.filePath
         ELSE NoPath
    ELSE NoPath

\* pre-hook of a write / edit tool call on path p
toolUse(p) ==
    IF existsSync(files, p) THEN trackFile(p) ELSE trackNewFile(p)

\* the backup directory when createBackup throws at the call named: copyFileSync
\* fails before it opens the destination, or after it and removes it again;
\* utimesSync (or chmodSync) fails after the copy is complete
createBackupThrows(p, version, at) ==
    IF at = "copyFileSync:open" THEN blobs
    ELSE IF at = "copyFileSync:write" THEN Remove(blobs, generateBackupFileName(p, version))
    ELSE Put(blobs, generateBackupFileName(p, version),
             [content |-> files[p].content, mtime |-> now])

Faults == {"copyFileSync:open", "copyFileSync:write", "utimesSync"}

\* trackFile whose createBackup throws: the exception leaves trackFile before
\* pendingBackups.set
trackFileThrows(p, at) ==
    /\ existsSync(files, p)
    /\ hasFileChanged(p, previousBackup(p).backupFileName)
    /\ trackedFiles' = trackedFiles \cup {p}
    /\ blobs' = createBackupThrows(p, previousBackup(p).version + 1, at)
    /\ UNCHANGED <<files, snapshots, pendingBackups, now>>

\* the whole pre-hook: invocation is the tool call, fault the call of
\* createBackup that throws ("none": no I/O error); every path returns the
\* invocation
checkpointToolUse(checkpoints, invocation, fault) ==
    LET filePath == extractFilePath(invocation.name, invocation.params)
    IN  /\ IF ~checkpoints \/ filePath = NoPath
           THEN /\ fault = "none"
                /\ UNCHANGED <<files, blobs, snapshots, pendingBackups, trackedFiles,
                               now, manager>>
           ELSE /\ IF SessionId \in DOMAIN instances
                   THEN UNCHANGED manager
                   ELSE /\ [snapshots |-> snapshots, pendingBackups |-> pendingBackups,
                             trackedFiles |-> trackedFiles] = getOrCreate(<<>>, journal)
                        /\ instances' = Put(instances, SessionId, allocated + 1)
                        /\ allocated' = allocated + 1
                /\ IF fault = "none"
                   THEN IF existsSync(files, filePath)
                        THEN trackFileUpdate(filePath)
                        ELSE trackNewFileUpdate(filePath)
                   ELSE trackFileThrows(filePath, fault)
        /\ lastCall' = [op |-> "toolUse", returned |-> invocation, fault |-> fault]

\* the gates of the post-hook; fileHistory: manager.get returned an instance
stopGatesNoDuplicateCheck(checkpoints, success, lastMessage, fileHistory) ==
    /\ checkpoints
    /\ success
    /\ lastMessage # NoMessage /\ lastMessage.role = "assistant"
    /\ fileHistory
    /\ hasPendingBackups

stopGates(checkpoints, success, lastMessage, fileHistory) ==
    /\ checkpoints
    /\ success
    /\ lastMessage # NoMessage /\ lastMessage.role = "assistant"
    /\ fileHistory
    /\ ~hasSnapshot(lastMessage.uuid)
    /\ hasPendingBackups

\* a skipping post-hook that empties the pending set
stopSkipClears ==
    /\ lastCall' = [op |-> "stop", created |-> FALSE]
    /\ pendingBackups' = <<>>
    /\ UNCHANGED <<files, blobs, snapshots, trackedFiles, now, journal>>

stopSkip ==
    /\ lastCall' = [op |-> "stop", created |-> FALSE]
    /\ UNCHANGED <<files, blobs, snapshots, pendingBackups, trackedFiles, now, journal>>

\* a post-hook that gives the snapshot up when the journal append throws
stopRollback(checkpoints, success, lastMessage, fileHistory, appendThrows) ==
    IF stopGates(checkpoints, success, lastMessage, fileHistory)
    THEN IF appendThrows
         THEN /\ lastCall' = [op |-> "createSnapshot", returned |-> "snapshot"]
              /\ UNCHANGED <<files, blobs, snapshots, pendingBackups, trackedFiles, now,
                             journal>>
         ELSE createSnapshot(lastMessage.uuid) /\ persistSnapshot
    ELSE stopSkip

\* the post-hook of a turn whose history ends with lastMessage; appendThrows:
\* jsonlLogger.addSnapshot throws, which is caught and logged
stop(checkpoints, success, lastMessage, fileHistory, appendThrows) ==
    IF stopGates(checkpoints, success, lastMessage, fileHistory)
    THEN /\ createSnapshot(lastMessage.uuid)
         /\ IF appendThrows THEN UNCHANGED journal ELSE persistSnapshot
    ELSE stopSkip

\* the tool calls the pre-hook sees, and the last messages the post-hook sees
ToolUses ==
    {[name |-> "write", params |-> [file_path |-> "a.txt", filePath |-> NoPath]],
     [name |-> "edit",  params |-> [file_path |-> NoPath, filePath |-> "b.txt"]],
     [name |-> "write", params |-> [file_path |-> "a.txt", filePath |-> "b.txt"]],
     [name |-> "write", params |-> [file_path |-> NoPath, filePath |-> NoPath]],
     [name |-> "read",  params |-> [file_path |-> "a.txt", filePath |-> NoPath]]}

LastMessages ==
    {NoMessage} \cup {[uuid |-> m, role |-> role] :
                        m \in Used \cup {Fresh}, role \in {"assistant", "user"}}

HookStep ==
    steps < MaxHookSteps /\ steps' = steps + 1 /\ UNCHANGED <<walk, sessions>>

HookToolUse(checkpoints, invocation, fault) ==
    /\ checkpointToolUse(checkpoints, invocation, fault)
    /\ HookStep /\ UNCHANGED <<journal, hist>>

HookStop(checkpoints, success, lastMessage, appendThrows) ==
    /\ stop(checkpoints, success, lastMessage, SessionId \in DOMAIN instances, appendThrows)
    /\ HookStep /\ UNCHANGED <<hist, manager>>

\* the tool runs and writes its file
HookWrite(p, content) ==
    WriteFile(p, content) /\ HookStep /\ UNCHANGED <<hist, journal, manager>>

NextHooks ==
    \/ \E checkpoints \in BOOLEAN, invocation \in ToolUses, fault \in Faults \cup {"none"} :
            HookToolUse(checkpoints, invocation, fault)
    \/ \E checkpoints, success, appendThrows \in BOOLEAN, lastMessage \in LastMessages :
            HookStop(checkpoints, success, lastMessage, appendThrows)
    \/ \E p \in Paths : HookWrite(p, <<"y">>)
    \/ \E m \in Used \cup {Fresh} : snapshotCreateUnpersisted(m)

\* the session starts in a project that has a.txt and not b.txt
InitHooks == Init /\ DOMAIN files = {"a.txt"}

SpecHooks == InitHooks /\ [][NextHooks]_vars

\* ------------------------------------------------ the manager's instance map
\* instances maps a session to the identity of its FileHistory object; the
\* object of SessionId is the one whose fields are snapshots, pendingBackups
\* and trackedFiles
Sessions == {SessionId, "s2"}

\* clear() called without an argument
NoSession == "undefined"

\* get() of a session that has no instance
NoInstance == 0

\* instances.set(sessionId, fileHistory) with an object just constructed
installFileHistory(s, fileHistory) ==
    /\ instances' = Put(instances, s, allocated + 1)
    /\ allocated' = allocated + 1
    /\ IF s = SessionId
       THEN /\ snapshots' = fileHistory.snapshots
            /\ pendingBackups' = fileHistory.pendingBackups
            /\ trackedFiles' = fileHistory.trackedFiles
       ELSE UNCHANGED <<snapshots, pendingBackups, trackedFiles>>

\* getOrCreate that builds an instance from the journal on every call
managerGetOrCreateUncached(s) ==
    /\ installFileHistory(s, getOrCreate(<<>>, journal))
    /\ lastCall' = [op |-> "getOrCreate", sessionId |-> s,
                    returned |-> allocated + 1, read |-> TRUE]
    /\ UNCHANGED <<files, blobs, now, journal>>

managerGetOrCreate(s) ==
    /\ IF s \in DOMAIN instances
       THEN /\ UNCHANGED <<manager, snapshots, pendingBackups, trackedFiles>>
            /\ lastCall' = [op |-> "getOrCreate", sessionId |-> s,
                            returned |-> instances[s], read |-> FALSE]
       ELSE /\ installFileHistory(s, getOrCreate(<<>>, journal))
            /\ lastCall' = [op |-> "getOrCreate", sessionId |-> s,
                            returned |-> allocated + 1, read |-> TRUE]
    /\ UNCHANGED <<files, blobs, now, journal>>

\* snapshot.loadFromSession: FileHistory.fromSession(data.snapshots), then set
managerSet(s, serialized) ==
    /\ installFileHistory(s, fromSession(serialized))
    /\ lastCall' = [op |-> "set", sessionId |-> s, returned |-> allocated + 1]
    /\ UNCHANGED <<files, blobs, now, journal>>

managerGet(s) ==
    /\ lastCall' = [op |-> "get", sessionId |-> s,
                    returned |-> IF s \in DOMAIN instances THEN instances[s]
                                 ELSE NoInstance]
    /\ UNCHANGED <<files, blobs, snapshots, pendingBackups, trackedFiles, now,
                   journal, manager>>

managerClear(sessionId) ==
    /\ instances' = IF sessionId # NoSession THEN Remove(instances, sessionId) ELSE <<>>
    /\ lastCall' = [op |-> "clear", sessionId |-> sessionId]
    /\ UNCHANGED <<files, blobs, snapshots, pendingBackups, trackedFiles, now,
                   journal, allocated>>

managerDestroy ==
    /\ instances' = <<>>
    /\ lastCall' = [op |-> "destroy"]
    /\ UNCHANGED <<files, blobs, snapshots, pendingBackups, trackedFiles, now,
                   journal, allocated>>

ManagerGetOrCreate(s) == managerGetOrCreate(s) /\ HookStep /\ UNCHANGED hist

ManagerSet(s) ==
    /\ managerSet(s, loadSessionWithSnapshots(journal).snapshots)
    /\ HookStep /\ UNCHANGED hist

ManagerGet(s) == managerGet(s) /\ HookStep /\ UNCHANGED hist

ManagerClear(sessionId) == managerClear(sessionId) /\ HookStep /\ UNCHANGED hist

ManagerDestroy == managerDestroy /\ HookStep /\ UNCHANGED hist

\* the hooks of a session whose instance the map holds
ManagerToolUse(invocation) ==
    SessionId \in DOMAIN instances /\ HookToolUse(TRUE, invocation, "none")

ManagerStop(messageId) ==
    /\ SessionId \in DOMAIN instances
    /\ HookStop(TRUE, TRUE, [uuid |-> messageId, role |-> "assistant"], FALSE)

NextManager ==
    \/ \E s \in Sessions : ManagerGetOrCreate(s)
    \/ \E s \in Sessions : ManagerSet(s)
    \/ \E s \in Sessions : ManagerGet(s)
    \/ \E sessionId \in Sessions \cup {NoSession} : ManagerClear(sessionId)
    \/ ManagerDestroy
    \/ \E invocation \in ToolUses : ManagerToolUse(invocation)
    \/ \E m \in Used \cup {Fresh} : ManagerStop(m)

SpecManager == InitHooks /\ [][NextManager]_vars

\* --------------------------------------- two sessions under one manager
\* a backup directory that every session shares
backupDirShared(sessionId) == <<"backupRoot">>

\* this.backupDir = path.join(backupRoot, opts.sessionId)
backupDir(sessionId) == <<"backupRoot", sessionId>>

\* the fields of the FileHistory object the manager holds for session s
ObjectOf(s) ==
    IF s = current
    THEN [snapshots |-> snapshots, pendingBackups |-> pendingBackups,
          trackedFiles |-> trackedFiles]
    ELSE heap[s]

\* the content of a directory under backupRoot; a directory never made is empty
Directory(dir) ==
    IF dir = backupDir(current) THEN blobs
    ELSE IF dir \in DOMAIN disk THEN disk[dir]
    ELSE <<>>

\* a caller obtains the FileHistory of session s from the manager, which
\* constructs it on first use, and makes its calls on that object
useSession(s) ==
    LET fileHistory == IF s \in DOMAIN instances THEN ObjectOf(s)
                       ELSE getOrCreate(<<>>, journal)
        parked == IF current \in DOMAIN instances /\ current # s
                  THEN Put(heap, current, ObjectOf(current))
                  ELSE heap
    IN  /\ instances' = IF s \in DOMAIN instances THEN instances
                        ELSE Put(instances, s, allocated + 1)
        /\ allocated' = IF s \in DOMAIN instances THEN allocated ELSE allocated + 1
        /\ current' = s
        /\ heap' = Remove(parked, s)
        /\ disk' = Remove(Put(disk, backupDir(current), blobs), backupDir(s))
        /\ snapshots' = fileHistory.snapshots
        /\ pendingBackups' = fileHistory.pendingBackups
        /\ trackedFiles' = fileHistory.trackedFiles
        /\ blobs' = Directory(backupDir(s))
        /\ lastCall' = [op |-> "getOrCreate", sessionId |-> s]
        /\ UNCHANGED <<files, now, journal>>

\* one call; inUse: the call is made on the object of the session in use
SessionsStep(inUse) ==
    /\ steps < MaxSessionSteps /\ steps' = steps + 1
    /\ UNCHANGED <<hist, journal, walk>>
    /\ inUse => (current \in DOMAIN instances /\ UNCHANGED <<manager, sessions>>)

SessionsUse(s) == useSession(s) /\ SessionsStep(FALSE)

SessionsTrackFile(p) == trackFile(p) /\ SessionsStep(TRUE)

SessionsCreateSnapshot(messageId) == createSnapshot(messageId) /\ SessionsStep(TRUE)

SessionsRewind(messageId) == Rewind(messageId) /\ SessionsStep(TRUE)

SessionsWrite(p, content) ==
    WriteFile(p, content) /\ SessionsStep(FALSE) /\ UNCHANGED <<manager, sessions>>

NextSessions ==
    \/ \E s \in Sessions : SessionsUse(s)
    \/ \E p \in Paths : SessionsTrackFile(p)
    \/ SessionsCreateSnapshot(Fresh)
    \/ \E m \in Used : SessionsRewind(m)
    \/ SessionsWrite("a.txt", <<"y">>)

SpecSessions == InitHooks /\ [][NextSessions]_vars

\* ------------------------------------------ FileHistory called directly
\* calls on one FileHistory object in any order, as the unit tests make them:
\* a path may be tracked several times between two snapshots
TrackStep ==
    /\ steps < MaxTrackSteps /\ steps' = steps + 1
    /\ UNCHANGED <<hist, journal, manager, walk, sessions>>

\* the content the pending entry of p holds in the backup directory, if any
PendingContent(p) ==
    IF Has(pendingBackups, p) /\ Get(pendingBackups, p).backupFileName # Null
                              /\ existsSync(blobs, Get(pendingBackups, p).backupFileName)
    THEN <<blobs[Get(pendingBackups, p).backupFileName].content>>
    ELSE <<>>

TrackFile(p) ==
    /\ trackFileUpdate(p)
    /\ lastCall' = [op |-> "trackFile", path |-> p, pending |-> PendingContent(p)]
    /\ TrackStep

TrackNewFile(p) == trackNewFile(p) /\ TrackStep

CreateSnapshot(messageId) == createSnapshot(messageId) /\ TrackStep

TrackWrite(p, content) == WriteFile(p, content) /\ TrackStep

TrackUnlink(p) == DeleteFile(p) /\ TrackStep

TrackClock == Tick /\ TrackStep

NextTrack ==
    \/ \E p \in Paths : TrackFile(p)
    \/ \E p \in Paths : TrackNewFile(p)
    \/ CreateSnapshot(Fresh)
    \/ \E p \in Paths, content \in {<<>>, <<"y">>} : TrackWrite(p, content)
    \/ \E p \in Paths : TrackUnlink(p)
    \/ TrackClock

SpecTrack == Init /\ [][NextTrack]_vars

\* ---------------------------------------------- the snapshot list, read
\* what getSnapshotPreviews returns; the first preview has no changes field
getSnapshotPreviews ==
    [index \in 1..Len(snapshots) |->
        LET snapshot == snapshots[index]
            fileCount == Len(snapshot.trackedFileBackups)
        IN  IF index > 1
            THEN LET previous == snapshots[index - 1]
                     changed == {filePath \in KeySet(snapshot.trackedFileBackups) :
                                    \/ ~Has(previous.trackedFileBackups, filePath)
                                    \/ Get(snapshot.trackedFileBackups, filePath).backupFileName
                                        # Get(previous.trackedFileBackups, filePath).backupFileName}
                 IN  [messageId |-> snapshot.messageId, fileCount |-> fileCount,
                      changes |-> [insertions |-> 0, deletions |-> 0,
                                   filesChanged |-> Cardinality(changed)]]
            ELSE [messageId |-> snapshot.messageId, fileCount |-> fileCount]]

SnapshotPreviews ==
    /\ lastCall' = [op |-> "getSnapshotPreviews", returned |-> getSnapshotPreviews]
    /\ UNCHANGED <<files, blobs, snapshots, pendingBackups, trackedFiles, now>>

\* a dry run that restores the files all the same
DryRunWrites(messageId) ==
    /\ lastCall' = [op |-> "dryRun", messageId |-> messageId,
                    result |-> rewindToMessage(messageId, TRUE).result]
    /\ files' = rewindToMessage(messageId, FALSE).files
    /\ UNCHANGED <<blobs, snapshots, pendingBackups, trackedFiles, now>>

\* rewindToMessage(messageId, true) called directly
DryRun(messageId) ==
    /\ lastCall' = [op |-> "dryRun", messageId |-> messageId,
                    result |-> rewindToMessage(messageId, TRUE).result]
    /\ UNCHANGED <<files, blobs, snapshots, pendingBackups, trackedFiles, now>>

ListStep ==
    /\ steps < MaxListSteps /\ steps' = steps + 1
    /\ UNCHANGED <<hist, journal, manager, walk, sessions>>

ListTrackFile(p) == trackFile(p) /\ ListStep

ListTrackNewFile(p) == trackNewFile(p) /\ ListStep

ListCreateSnapshot(messageId) == createSnapshot(messageId) /\ ListStep

ListWrite(p, content) == WriteFile(p, content) /\ ListStep

ListUnlink(p) == DeleteFile(p) /\ ListStep

ListPreviews == SnapshotPreviews /\ ListStep

ListRewind(messageId) == Rewind(messageId) /\ ListStep

ListDryRun(messageId) == DryRun(messageId) /\ ListStep

ListPreview(messageId, cumulative) == Preview(messageId, cumulative) /\ ListStep

ListBlobLost(name) == LoseBlob(name) /\ ListStep

NextList ==
    \/ \E p \in Paths : ListTrackFile(p)
    \/ \E p \in Paths : ListTrackNewFile(p)
    \/ ListCreateSnapshot(Fresh)
    \/ \E p \in Paths : ListWrite(p, <<"y">>)
    \/ \E p \in Paths : ListUnlink(p)
    \/ \E m \in Used \cup {Fresh} : ListRewind(m)
    \/ \E m \in Used \cup {Fresh} : ListDryRun(m)
    \/ \E m \in Used \cup {Fresh}, cumulative \in BOOLEAN : ListPreview(m, cumulative)
    \/ \E name \in DOMAIN blobs : ListBlobLost(name)
    \/ ListPreviews

SpecList == Init /\ [][NextList]_vars

\* a session that follows the protocol: every tool call is announced to the
\* pre-hook once per path and turn, before the tool writes; the post-hook ends
\* the turn; a rewind or a preview is asked for between turns
TurnToolUse(p) ==
    /\ clean /\ p \notin turn.tracked
    /\ toolUse(p)
    /\ turn' = [turn EXCEPT !.tracked = @ \cup {p}]
    /\ Step(MaxTurnSteps) /\ UNCHANGED <<past, clean>> /\ UNCHANGED journal

TurnWrite(p, content) ==
    /\ clean /\ p \in turn.tracked
    /\ WriteFile(p, content)
    /\ turn' = [turn EXCEPT !.changed = @ \cup {p}]
    /\ past' = [m \in DOMAIN past |-> [past[m] EXCEPT !.changed = @ \cup {p}]]
    /\ Step(MaxTurnSteps) /\ UNCHANGED clean /\ UNCHANGED journal

TurnStop(messageId) ==
    /\ clean
    /\ stop(TRUE, TRUE, [uuid |-> messageId, role |-> "assistant"], TRUE, FALSE)
    /\ past' = IF hasPendingBackups
               THEN Put(past, messageId, [start |-> turn.start, changed |-> turn.changed])
               ELSE past
    /\ turn' = NewTurn(files)
    /\ Step(MaxTurnSteps) /\ UNCHANGED clean

TurnClock ==
    clean /\ Tick /\ Step(MaxTurnSteps) /\ UNCHANGED hist /\ UNCHANGED journal

TurnPreview(messageId) ==
    /\ clean /\ turn.tracked = {}
    /\ Preview(messageId, TRUE)
    /\ Step(MaxTurnSteps) /\ UNCHANGED hist /\ UNCHANGED journal

TurnRewind(messageId) ==
    /\ clean /\ turn.tracked = {}
    /\ Rewind(messageId)
    /\ clean' = FALSE
    /\ Step(MaxTurnSteps) /\ UNCHANGED <<turn, past>> /\ UNCHANGED journal

NextTurns ==
    \/ \E p \in Paths : TurnToolUse(p)
    \/ \E p \in Paths, c \in Contents : TurnWrite(p, c)
    \/ TurnStop(Fresh)
    \/ TurnClock
    \/ \E m \in Used : TurnPreview(m)
    \/ \E m \in Used : TurnRewind(m)

SpecTurns == Init /\ [][NextTurns]_vars

\* ------------------------------------------------- loading the session
\* a line is appended to session.jsonl
addMessage(line) ==
    /\ lastCall.op = "none"
    /\ Len(journal) < MaxMessages
    /\ journal' = Append(journal, line)
    /\ UNCHANGED <<files, blobs, snapshots, pendingBackups, trackedFiles, now,
                   lastCall, steps, hist, manager, walk, sessions>>

\* the session is loaded: the journal's lines go through filterMessages
loadSessionMessages ==
    /\ lastCall.op = "none"
    /\ lastCall' = [op |-> "filterMessages", returned |-> filterMessages(journal)]
    /\ UNCHANGED <<files, blobs, snapshots, pendingBackups, trackedFiles, now,
                   journal, steps, hist, manager, walk, sessions>>

NextFilter ==
    \/ \E line \in JournalLines(Len(journal) + 1) : addMessage(line)
    \/ loadSessionMessages

\* the journal is read before any file of the workspace matters
InitFilter == Init /\ files = <<>>

SpecFilter == InitFilter /\ [][NextFilter]_vars

\* ------------------------------------- the parent walk, one iteration a step
\* a line of a journal that any writer may have produced: a uuid may repeat,
\* and a parentUuid may be null, absent from the journal, the message's own
\* uuid or the uuid of any other line
WalkLines ==
    {[type |-> "message", uuid |-> ToString(i), parentUuid |-> parent,
      role |-> "user", content |-> <<TextPart>>] :
        i \in 1..MaxMessages,
        parent \in {NullUuid, MissingUuid} \cup {ToString(j) : j \in 1..MaxMessages}}

walkAppend(line) ==
    /\ walk.pc = "idle"
    /\ Len(journal) < MaxMessages
    /\ journal' = Append(journal, line)
    /\ UNCHANGED <<files, blobs, snapshots, pendingBackups, trackedFiles, now,
                   lastCall, steps, hist, manager, walk, sessions>>

\* filterMessages up to the loop: the empty list returns at once, otherwise
\* messageMap is filled and currentMessage is the last message
walkStart ==
    /\ walk.pc = "idle"
    /\ LET messages == messageTypeOnly(journal)
       IN  IF Len(messages) = 0
           THEN /\ walk' = [pc |-> "done", activePath |-> {}]
                /\ lastCall' = [op |-> "filterMessages", returned |-> <<>>]
           ELSE /\ walk' = [pc |-> "loop", activePath |-> {},
                            messageMap |-> messageMap(messages),
                            currentMessage |-> messages[Len(messages)]]
                /\ UNCHANGED lastCall
    /\ UNCHANGED <<files, blobs, snapshots, pendingBackups, trackedFiles, now,
                   journal, steps, hist, manager, sessions>>

\* one iteration of while (currentMessage); on a break the rest of
\* filterMessages runs and returns
walkIterate ==
    /\ walk.pc = "loop"
    /\ LET path == walk.activePath \cup {walk.currentMessage.uuid}
           parentUuid == walk.currentMessage.parentUuid
       IN  IF parentUuid = NullUuid \/ parentUuid \notin DOMAIN walk.messageMap
           THEN /\ walk' = [pc |-> "done", activePath |-> path]
                /\ lastCall' = [op |-> "filterMessages",
                                returned |-> filterMessages(journal)]
           ELSE /\ walk' = [walk EXCEPT !.activePath = path,
                                        !.currentMessage = walk.messageMap[parentUuid]]
                /\ UNCHANGED lastCall
    /\ UNCHANGED <<files, blobs, snapshots, pendingBackups, trackedFiles, now,
                   journal, steps, hist, manager, sessions>>

NextWalk ==
    \/ \E line \in WalkLines : walkAppend(line)
    \/ walkStart
    \/ walkIterate

\* the loop is not suspended: an iteration that can run does run
SpecWalk == InitFilter /\ [][NextWalk]_vars /\ WF_vars(walkIterate)

\* the i-th line of a journal that also holds snapshots: a message, a snapshot
\* keyed by the uuid of a line so far, a config line or a line of unknown type
LoadLines(i) ==
    {[type |-> "message", uuid |-> ToString(i), parentUuid |-> parent,
      role |-> shape.role, content |-> shape.content] :
        parent \in {NullUuid} \cup {ToString(j) : j \in 1..(i - 1)},
        shape \in {[role |-> "user", content |-> <<TextPart>>],
                   [role |-> "assistant", content |-> <<TextPart>>],
                   [role |-> "assistant", content |-> <<ToolUse("t1")>>]}}
    \cup {addSnapshot(<<>>, [messageId |-> ToString(j), trackedFileBackups |-> backups])[1] :
            j \in 1..i,
            backups \in {<<>>, <<[path |-> "a.txt",
                                  meta |-> [backupFileName |-> <<"a.txt", 1>>,
                                            version |-> 1]]>>}}
    \cup {[type |-> "config"], [type |-> "unknown"]}

\* the session is loaded with its snapshots
loadSession ==
    /\ lastCall.op = "none"
    /\ lastCall' = [op |-> "loadSessionWithSnapshots",
                    returned |-> loadSessionWithSnapshots(journal)]
    /\ UNCHANGED <<files, blobs, snapshots, pendingBackups, trackedFiles, now,
                   journal, steps, hist, manager, walk, sessions>>

NextLoad ==
    \/ \E line \in LoadLines(Len(journal) + 1) : addMessage(line)
    \/ loadSession

SpecLoad == InitFilter /\ [][NextLoad]_vars

\* ====================================================================== claims

Range(seq) == {seq[i] : i \in 1..Len(seq)}

Target(messageId) == snapshots[findIndex(messageId)].trackedFileBackups

Rewound == lastCall.op = "rewindToMessage" /\ findIndex(lastCall.messageId) # 0

\* C1: in a session that follows the turn protocol, a successful
\* rewindToMessage(m) leaves every path written since the turn of m began
\* with exactly the content, or the non-existence, it had when that turn began;
\* stated for the case the claim names, a file that existed when the turn of m
\* began and was first tracked and written in a later turn.
C1_RewindRestoresTurnStart ==
    (~clean /\ Rewound /\ lastCall.result.success)
        => \A p \in past[lastCall.messageId].changed :
                (past[lastCall.messageId].start[p].exists
                    /\ ~Has(Target(lastCall.messageId), p))
                => View(files, p) = past[lastCall.messageId].start[p]

\* C2: on a history whose only snapshot is m, made after trackFile(p) of an
\* existing file, rewindToMessage(m) succeeds and leaves p existing with the
\* content trackFile copied to the backup, whatever was done to p in between.
C2_SnapshotThenRewind ==
    (Rewound /\ Len(snapshots) = 1)
        => \A p \in KeySet(snapshots[1].trackedFileBackups) :
            LET name == Get(snapshots[1].trackedFileBackups, p).backupFileName
            IN  name # Null
                => /\ lastCall.result.success
                   /\ existsSync(files, p)
                   /\ files[p].content = blobs[name].content

\* C3: a rewind to m does not delete an affected path that m's own snapshot
\* does not record when an earlier snapshot recorded it.
C3_EarlierRecordPreserved ==
    Rewound
        => \A p \in Range(allAffectedFiles(<<>>, findIndex(lastCall.messageId))) :
            (/\ ~Has(Target(lastCall.messageId), p)
             /\ \E i \in 1..(findIndex(lastCall.messageId) - 1) :
                    Has(snapshots[i].trackedFileBackups, p)
             /\ lastCall.before[p].exists)
            => existsSync(files, p)

\* C4: the versions recorded for a path are strictly increasing along the
\* snapshot list, and the first version recorded for a path is 1.
C4_VersionsIncrease ==
    \A p \in Paths :
        \A j \in 1..Len(snapshots) :
            Has(snapshots[j].trackedFileBackups, p)
            => IF \E i \in 1..(j - 1) : Has(snapshots[i].trackedFileBackups, p)
               THEN \A i \in 1..(j - 1) :
                        Has(snapshots[i].trackedFileBackups, p)
                        => Get(snapshots[i].trackedFileBackups, p).version
                            < Get(snapshots[j].trackedFileBackups, p).version
               ELSE Get(snapshots[j].trackedFileBackups, p).version = 1

\* C5: the messageIds of the snapshot list are pairwise distinct.
C5_MessageIdsDistinct ==
    \A i, j \in 1..Len(snapshots) :
        i # j => snapshots[i].messageId # snapshots[j].messageId

Entries == UNION ({ {snapshots[i].trackedFileBackups[k] :
                        k \in 1..Len(snapshots[i].trackedFileBackups)} :
                    i \in 1..Len(snapshots) }
                  \cup { {pendingBackups[k] : k \in 1..Len(pendingBackups)} })

SnapshotEntries == UNION { {snapshots[i].trackedFileBackups[k] :
                                k \in 1..Len(snapshots[i].trackedFileBackups)} :
                            i \in 1..Len(snapshots) }

IsPrefix(a, b) == Len(a) <= Len(b) /\ \A i \in 1..Len(a) : a[i] = b[i]

SameReport(r1, r2) ==
    /\ r1.success = r2.success
    /\ r1.filesChanged = r2.filesChanged
    /\ r1.insertions = r2.insertions
    /\ r1.deletions = r2.deletions

Previewed == lastCall.op = "previewRewind" /\ lastCall.cumulative

Repeated ==
    /\ lastCall.op = "rewindToMessage"
    /\ lastCall.previous.op = "rewindToMessage"
    /\ lastCall.previous.messageId = lastCall.messageId

NothingChanged(r) == r.filesChanged = <<>> /\ r.insertions = 0 /\ r.deletions = 0

C9_NotExistedDeleted ==
    (Rewound /\ lastCall.result.success)
        => \A p \in KeySet(Target(lastCall.messageId)) :
                Get(Target(lastCall.messageId), p).backupFileName = Null
                => ~existsSync(files, p)

\* a file that did not exist when the turn of m began, is not recorded by the
\* snapshot of m nor by an earlier one, and is recorded by a later snapshot
CreatedAfter(m, p) ==
    /\ findIndex(m) # 0 /\ m \in DOMAIN past
    /\ ~past[m].start[p].exists
    /\ \A i \in 1..findIndex(m) : ~Has(snapshots[i].trackedFileBackups, p)
    /\ \E j \in (findIndex(m) + 1)..Len(snapshots) : Has(snapshots[j].trackedFileBackups, p)

\* C10: for a file created after the snapshot of m1 and recorded only by a
\* later snapshot, previewRewind(m1, cumulative=true) lists the path and counts
\* its lines as insertions, and after rewindToMessage(m1) the file is gone.
C10_NewFileListedAndRemoved ==
    /\ (Previewed /\ clean)
        => \A p \in Paths :
            (CreatedAfter(lastCall.messageId, p) /\ existsSync(files, p))
            => /\ p \in Range(lastCall.result.filesChanged)
               /\ lastCall.result.insertions >= Len(files[p].content)
    /\ (lastCall.op = "rewindToMessage" /\ ~clean)
        => \A p \in Paths :
            (CreatedAfter(lastCall.messageId, p) /\ lastCall.before[p].exists)
            => ~existsSync(files, p)

Unknown(messageId) == \A i \in 1..Len(snapshots) : snapshots[i].messageId # messageId

\* C11: rewindToMessage(m) and previewRewind(m, cumulative), in either mode,
\* called with a messageId that no snapshot carries, return success=false with
\* the error "Snapshot not found", no changed file, no insertion and no
\* deletion, and change no working file, snapshot, pending entry or blob.
C11_UnknownMessageIsError ==
    [][(/\ lastCall'.op \in {"rewindToMessage", "previewRewind"}
        /\ Unknown(lastCall'.messageId))
       => /\ ~lastCall'.result.success
          /\ lastCall'.result.error = "Snapshot not found"
          /\ lastCall'.result.filesChanged = <<>>
          /\ lastCall'.result.insertions = 0
          /\ lastCall'.result.deletions = 0
          /\ UNCHANGED <<files, snapshots, pendingBackups, blobs>>]_vars

C11_Witness ==
    /\ lastCall.op = "rewindToMessage"
    /\ Unknown(lastCall.messageId)
    /\ ~lastCall.result.success
    /\ snapshots # <<>>
    /\ \E p \in Paths :
            existsSync(files, p) /\ calculateDiff(files, p, targetBackupFileName(snapshots[1], p)).insertions > 0

RECURSIVE SumDiff(_, _, _, _)
SumDiff(fs, target, paths, field) ==
    IF paths = <<>> THEN 0
    ELSE calculateDiff(fs, Head(paths), targetBackupFileName(target, Head(paths)))[field]
            + SumDiff(fs, target, Tail(paths), field)

IndexOf(seq, x) == CHOOSE i \in 1..Len(seq) : seq[i] = x

RestoreFailed(call) ==
    /\ call.op = "rewindToMessage"
    /\ ~Unknown(call.messageId)
    /\ ~call.result.success

HasBackup(p) == \E j \in 1..Len(snapshots) : Has(snapshots[j].trackedFileBackups, p)

LatestBackup(p) ==
    LET j == CHOOSE k \in 1..Len(snapshots) :
                /\ Has(snapshots[k].trackedFileBackups, p)
                /\ \A l \in (k + 1)..Len(snapshots) : ~Has(snapshots[l].trackedFileBackups, p)
    IN  Get(snapshots[j].trackedFileBackups, p)

SameAsLatestBackup(p) ==
    /\ existsSync(files, p)
    /\ HasBackup(p)
    /\ LatestBackup(p).backupFileName # Null
    /\ existsSync(blobs, LatestBackup(p).backupFileName)
    /\ Size(files[p].content) = Size(blobs[LatestBackup(p).backupFileName].content)
    /\ files[p].mtime = blobs[LatestBackup(p).backupFileName].mtime

\* C13: trackFile(p) of a path whose working file has the size and the mtime
\* of p's latest backup among all prior snapshots adds no pending entry and
\* writes no blob.
C13_TrackNoOp ==
    [][\A p \in Paths :
        (SameAsLatestBackup(p) /\ p \in turn'.tracked /\ p \notin turn.tracked)
        => (pendingBackups' = pendingBackups /\ blobs' = blobs)]_vars

CreateReturned(call, value) == call.op = "createSnapshot" /\ call.returned = value

\* C14: createSnapshot(m) called while the pending set is empty returns
\* absent and leaves the snapshot list as it was, and the create request
\* appends no line to the journal.
C14_CreateWithoutPending ==
    [][(lastCall'.op = "createSnapshot" /\ pendingBackups = <<>>)
       => /\ lastCall'.returned = "null"
          /\ snapshots' = snapshots
          /\ journal' = journal]_vars

C14_Witness ==
    /\ CreateReturned(lastCall, "null")
    /\ snapshots # <<>>
    /\ Len(journal) = Len(snapshots)

\* C15: createSnapshot(m) called with a non-empty pending set appends exactly
\* one snapshot at the end of the list, whose trackedFileBackups is exactly the
\* pending set of that moment, and leaves the pending set empty.
C15_CreateMovesPending ==
    [][(lastCall'.op = "createSnapshot" /\ pendingBackups # <<>>)
       => /\ lastCall'.returned = "snapshot"
          /\ Len(snapshots') = Len(snapshots) + 1
          /\ \A i \in 1..Len(snapshots) : snapshots'[i] = snapshots[i]
          /\ snapshots'[Len(snapshots')].trackedFileBackups = pendingBackups
          /\ pendingBackups' = <<>>]_vars

C15_Witness ==
    /\ CreateReturned(lastCall, "snapshot")
    /\ Len(snapshots) >= 2
    /\ KeySet(snapshots[Len(snapshots)].trackedFileBackups)
            # KeySet(snapshots[1].trackedFileBackups)
    /\ pendingBackups = <<>>

\* every snapshot created so far is in the journal, in order
Mirrored ==
    loadSessionWithSnapshots(journal).snapshots
        = [i \in 1..Len(snapshots) |-> serializeSnapshot(snapshots[i])]

Loaded == lastCall.op = "filterMessages"

Messages ==
    LET typed(line) == line.type = "message"
    IN  SelectSeq(journal, typed)

ToolUsesOf(message) ==
    IF message.role # "assistant" THEN {}
    ELSE {message.content[k].id :
            k \in {k \in DOMAIN message.content : message.content[k].type = "tool_use"}}

ToolResultsOf(message) ==
    IF message.role # "tool" THEN {}
    ELSE {message.content[k].toolCallId :
            k \in {k \in DOMAIN message.content : message.content[k].type = "tool-result"}}

\* the message at position to is the one at position from or one of its ancestors
RECURSIVE Reaches(_, _, _)
Reaches(msgs, from, to) ==
    \/ from = to
    \/ \E j \in DOMAIN msgs :
            /\ msgs[j].uuid = msgs[from].parentUuid
            /\ Reaches(msgs, j, to)

\* positions of the chain from the last message back along parentUuid
Chain(msgs) == {i \in DOMAIN msgs : Reaches(msgs, Len(msgs), i)}

\* the messages at the positions pos, in list order
Sub(msgs, pos) ==
    LET at(message) == \E i \in pos : msgs[i].uuid = message.uuid
    IN  SelectSeq(msgs, at)

NoToolUse(msgs) == \A i \in DOMAIN msgs : ToolUsesOf(msgs[i]) = {}

\* C17 (as stated): for a message list without tool invocations, filterMessages
\* returns, in their original order, exactly the messages of the chain that
\* starts at the last message and follows parentUuid back to a null-parented
\* ancestor; the empty list maps to the empty list.
C17_ActivePathToRoot ==
    (Loaded /\ NoToolUse(Messages))
        => IF Messages = <<>> THEN lastCall.returned = <<>>
           ELSE /\ lastCall.returned = Sub(Messages, Chain(Messages))
                /\ \E i \in Chain(Messages) : Messages[i].parentUuid = NullUuid

\* C17 (amended): for a message list without tool invocations, filterMessages
\* returns, in their original order, exactly the messages of the chain that
\* starts at the last message and follows parentUuid back until a message
\* whose parentUuid is null or is the uuid of no message of the list; every
\* other message is discarded; the empty list maps to the empty list.
C17_ActivePath ==
    (Loaded /\ NoToolUse(Messages))
        => IF Messages = <<>> THEN lastCall.returned = <<>>
           ELSE /\ lastCall.returned = Sub(Messages, Chain(Messages))
                /\ \A i \in Chain(Messages) :
                        \/ Messages[i].parentUuid = NullUuid
                        \/ \A j \in DOMAIN Messages :
                                Messages[j].uuid # Messages[i].parentUuid
                        \/ \E j \in Chain(Messages) :
                                Messages[j].uuid = Messages[i].parentUuid

C17_Witness ==
    /\ Loaded /\ NoToolUse(Messages)
    /\ Len(lastCall.returned) >= 2
    /\ Len(lastCall.returned) < Len(Messages)
    /\ lastCall.returned[1].parentUuid = MissingUuid

\* C18: in the list the reader retains, every message has parentUuid = null or
\* its parent is retained too, and no two retained messages share a parent.
C18_RetainedIsPath ==
    Loaded
        => /\ \A i \in DOMAIN lastCall.returned :
                \/ lastCall.returned[i].parentUuid = NullUuid
                \/ \E j \in DOMAIN lastCall.returned :
                        lastCall.returned[j].uuid = lastCall.returned[i].parentUuid
           /\ \A i, j \in DOMAIN lastCall.returned :
                i # j => lastCall.returned[i].parentUuid # lastCall.returned[j].parentUuid

\* C19: in the output of filterMessages every tool-invocation id of a retained
\* assistant message is the id of a tool-result of a retained tool message.
C19_RetainedToolUsesMatched ==
    Loaded
        => \A i \in DOMAIN lastCall.returned :
                \A id \in ToolUsesOf(lastCall.returned[i]) :
                    \E j \in DOMAIN lastCall.returned :
                        id \in ToolResultsOf(lastCall.returned[j])

C19_Witness ==
    /\ Loaded
    /\ \E i \in DOMAIN lastCall.returned : ToolUsesOf(lastCall.returned[i]) # {}
    /\ Len(lastCall.returned) < Len(Sub(Messages, Chain(Messages)))

\* the assistant message at position i of msgs has a tool invocation that no
\* later tool message of msgs answers
Unanswered(msgs, i) ==
    \E id \in ToolUsesOf(msgs[i]) :
        \A j \in DOMAIN msgs : j > i => id \notin ToolResultsOf(msgs[j])

\* C20: the cleanup removes from the active path exactly the assistant messages
\* that hold a tool-invocation id for which no tool message later in the list
\* carries a tool-result; every other message is retained.
C20_RemovedIffNoLaterResult ==
    (Loaded /\ Messages # <<>>)
        => LET path == filteredByPath(Messages)
           IN  lastCall.returned
                    = Sub(path, {i \in DOMAIN path : ~Unanswered(path, i)})

\* the snapshot records of a log, in order, without their tag
RECURSIVE SnapshotRecords(_)
SnapshotRecords(log) ==
    IF log = <<>> THEN <<>>
    ELSE IF Head(log).type = "snapshot"
         THEN <<Head(log).snapshot>> \o SnapshotRecords(Tail(log))
         ELSE SnapshotRecords(Tail(log))

SessionLoaded == lastCall.op = "loadSessionWithSnapshots"

\* C21: the journal load returns every snapshot record of the file, in file
\* order and without its type tag, whatever the message filter retains; the
\* message list holds message records only (the filtered ones), config and
\* unknown records are in neither list, and a journal without a line yields
\* two empty lists.
C21_LoadSplitsByType ==
    SessionLoaded
        => /\ lastCall.returned.snapshots = SnapshotRecords(journal)
           /\ lastCall.returned.messages = filterMessages(Messages)
           /\ \A k \in DOMAIN lastCall.returned.messages :
                /\ lastCall.returned.messages[k].type = "message"
                /\ lastCall.returned.messages[k] \in Range(journal)
           /\ Len(lastCall.returned.snapshots)
                = Cardinality({i \in DOMAIN journal : journal[i].type = "snapshot"})
           /\ journal = <<>>
                => lastCall.returned = [messages |-> <<>>, snapshots |-> <<>>]

C21_Witness ==
    /\ SessionLoaded
    /\ \E i \in DOMAIN journal : journal[i].type \in {"config", "unknown"}
    /\ \E k \in DOMAIN lastCall.returned.snapshots :
            /\ \E i \in DOMAIN Messages :
                    Messages[i].uuid = lastCall.returned.snapshots[k].messageId
            /\ \A j \in DOMAIN lastCall.returned.messages :
                    lastCall.returned.messages[j].uuid
                        # lastCall.returned.snapshots[k].messageId

\* the post-hook's gates, read off the state and the hook's inputs
AllGatesPass(checkpoints, success, lastMessage) ==
    /\ checkpoints
    /\ success
    /\ lastMessage.role = "assistant"
    /\ SessionId \in DOMAIN instances
    /\ \A i \in 1..Len(snapshots) : snapshots[i].messageId # lastMessage.uuid
    /\ pendingBackups # <<>>

\* C22: a post-hook whose journal append does not fail creates a snapshot if
\* and only if checkpoints is enabled, the turn succeeded, the last message
\* exists and is an assistant message, the session has a FileHistory, no
\* snapshot has the message's uuid and a backup is pending; then one snapshot
\* keyed by that uuid is appended to the list and one snapshot record to the
\* journal; otherwise the list, the pending set and the journal are unchanged.
C22_StopCreatesIffGates ==
    [][\A checkpoints, success \in BOOLEAN, lastMessage \in LastMessages :
        HookStop(checkpoints, success, lastMessage, FALSE)
            => IF AllGatesPass(checkpoints, success, lastMessage)
               THEN /\ snapshots' = Append(snapshots,
                            [messageId |-> lastMessage.uuid,
                             trackedFileBackups |-> pendingBackups])
                    /\ Len(journal') = Len(journal) + 1
                    /\ SubSeq(journal', 1, Len(journal)) = journal
                    /\ journal'[Len(journal')].type = "snapshot"
                    /\ journal'[Len(journal')].snapshot.messageId = lastMessage.uuid
               ELSE UNCHANGED <<snapshots, pendingBackups, journal>>]_vars

C22_Witness ==
    /\ lastCall.op = "createSnapshot" /\ lastCall.returned = "snapshot"
    /\ Len(snapshots) = 2
    /\ Len(journal) = 2
    /\ journal[2].snapshot.messageId = snapshots[2].messageId
    /\ SessionId \in DOMAIN instances

\* C23: a pending backup stays in the pending set, unchanged, through every
\* post-hook that skips; it leaves the set only into the snapshot of a
\* post-hook that passes all gates, which commits the whole pending set, or
\* when the pre-hook tracks its path again.
C23_PendingSurvivesSkip ==
    [][/\ \A k \in 1..Len(pendingBackups) :
            \/ pendingBackups[k] \in Range(pendingBackups')
            \/ /\ Len(snapshots') = Len(snapshots) + 1
               /\ pendingBackups[k] \in Range(snapshots'[Len(snapshots')].trackedFileBackups)
            \/ /\ lastCall'.op = "toolUse"
               /\ pendingBackups[k].path \in {lastCall'.returned.params.file_path,
                                              lastCall'.returned.params.filePath}
       /\ \A checkpoints, success, appendThrows \in BOOLEAN, lastMessage \in LastMessages :
            HookStop(checkpoints, success, lastMessage, appendThrows)
                => IF AllGatesPass(checkpoints, success, lastMessage)
                   THEN snapshots'[Len(snapshots')].trackedFileBackups = pendingBackups
                   ELSE pendingBackups' = pendingBackups]_vars

C23_Witness ==
    /\ lastCall = [op |-> "stop", created |-> FALSE]
    /\ pendingBackups # <<>>
    /\ snapshots # <<>>

\* the pre-hook has nothing to track
NothingToTrack(checkpoints, invocation) ==
    \/ ~checkpoints
    \/ invocation.name \notin {"write", "edit"}
    \/ invocation.params.file_path = NoPath /\ invocation.params.filePath = NoPath

\* C24: when checkpoints is disabled, the tool is neither write nor edit, or
\* the parameters carry no path, the pre-hook creates no FileHistory, tracks
\* nothing and writes no blob; in every case, tracking errors included, it
\* returns the tool invocation it was given.
C24_ToolUseSkips ==
    [][\A checkpoints \in BOOLEAN, invocation \in ToolUses, fault \in Faults \cup {"none"} :
        HookToolUse(checkpoints, invocation, fault)
            => /\ lastCall'.returned = invocation
               /\ NothingToTrack(checkpoints, invocation)
                    => UNCHANGED <<instances, allocated, trackedFiles, pendingBackups,
                                   blobs, snapshots, files>>]_vars

C24_Witness ==
    /\ lastCall.op = "toolUse"
    /\ lastCall.returned.name = "read"
    /\ lastCall.returned.params.file_path = "a.txt"
    /\ instances = <<>>
    /\ trackedFiles = {}

\* C25: when createBackup fails with an I/O error inside the pre-hook's
\* trackFile, the pending set is as before the call and every blob that a
\* pending entry or a snapshot references is as before the call.
C25_FailedCopyLeavesBackups ==
    [][(lastCall'.op = "toolUse" /\ lastCall'.fault # "none" /\ steps' # steps)
        => /\ pendingBackups' = pendingBackups
           /\ \A e \in Entries :
                e.meta.backupFileName # Null
                    => /\ existsSync(blobs', e.meta.backupFileName)
                            = existsSync(blobs, e.meta.backupFileName)
                       /\ existsSync(blobs, e.meta.backupFileName)
                            => blobs'[e.meta.backupFileName] = blobs[e.meta.backupFileName]]_vars

\* C26: when the journal append fails after createSnapshot, in the post-hook
\* or in the create request, the snapshot is in the in-memory list (hasSnapshot
\* holds and a rewind finds it), the pending set is empty, and the caller got
\* the snapshot, no error.
C26_UnpersistedSnapshotStays ==
    [][(/\ lastCall'.op = "createSnapshot" /\ lastCall'.returned = "snapshot"
        /\ journal' = journal /\ steps' # steps)
        => /\ Len(snapshots') = Len(snapshots) + 1
           /\ SubSeq(snapshots', 1, Len(snapshots)) = snapshots
           /\ snapshots'[Len(snapshots')].trackedFileBackups = pendingBackups
           /\ pendingBackups' = <<>>
           /\ \A m \in Used \cup {Fresh} :
                snapshots'[Len(snapshots')].messageId = m
                    => /\ hasSnapshot(m)'
                       /\ rewindToMessage(m, TRUE)'.result.error # "Snapshot not found"]_vars

C26_Witness ==
    /\ lastCall.op = "createSnapshot" /\ lastCall.returned = "snapshot"
    /\ Len(SnapshotRecords(journal)) < Len(snapshots)
    /\ ~Mirrored
    /\ pendingBackups = <<>>

\* the fields of the FileHistory object of SessionId
Instance == <<snapshots, pendingBackups, trackedFiles>>

AtTarget(m, p) ==
    LET name == targetBackupFileName(snapshots[findIndex(m)], p)
    IN  IF name = Null THEN ~existsSync(files, p)
        ELSE /\ existsSync(blobs, name)
             /\ existsSync(files, p)
             /\ files[p].content = blobs[name].content

\* C28: after a rewindToMessage(m) that stopped with an error, every path in
\* the returned filesChanged is in its target state in the workspace.
C28_FilesChangedIsRestoredPrefix ==
    (Rewound /\ ~lastCall.result.success)
        => \A p \in Range(lastCall.result.filesChanged) : AtTarget(lastCall.messageId, p)

\* p was tracked since the last snapshot and its content was changed since
ModifiedSinceTrack(p) ==
    /\ existsSync(files, p)
    /\ PendingContent(p) # <<>>
    /\ PendingContent(p)[1] # files[p].content

\* the pending entry of p keeps its version and backup name, and the blob now
\* holds the content p has at the call
Replaced(p) ==
    /\ Has(pendingBackups', p)
    /\ Get(pendingBackups', p) = Get(pendingBackups, p)
    /\ blobs'[Get(pendingBackups', p).backupFileName].content = files[p].content

C30_TrackAgainstReference ==
    [][\A p \in Paths :
        TrackFile(p)
            => LET recorded == HasBackup(p)
                   refExists == recorded /\ LatestBackup(p).backupFileName # Null
                   refVersion == IF recorded THEN LatestBackup(p).version ELSE 0
               IN  /\ (~existsSync(files, p) /\ ~refExists)
                        => pendingBackups' = pendingBackups
                   /\ (~existsSync(files, p) /\ refExists)
                        => /\ Has(pendingBackups', p)
                           /\ Get(pendingBackups', p)
                                = [backupFileName |-> Null, version |-> refVersion + 1]
                   /\ (existsSync(files, p) /\ ~refExists)
                        => /\ Has(pendingBackups', p)
                           /\ Get(pendingBackups', p).backupFileName # Null
                           /\ Get(pendingBackups', p).version = refVersion + 1
                           /\ blobs'[Get(pendingBackups', p).backupFileName].content
                                = files[p].content]_vars

\* the paths that differ between two snapshots' records: recorded by one of
\* them only, or recorded with different backup names
Differing(later, earlier) ==
    {p \in KeySet(later) \cup KeySet(earlier) :
        \/ ~Has(later, p)
        \/ ~Has(earlier, p)
        \/ Get(later, p).backupFileName # Get(earlier, p).backupFileName}

\* C31: getSnapshotPreviews reports, for every snapshot after the first, as
\* many changed files as there are paths whose backup name differs between the
\* snapshot and the one before it, a path recorded by only one of the two
\* counting as a change; the first preview has no change count; fileCount is
\* the number of paths of the snapshot.
C31_PreviewChangeCount ==
    lastCall.op = "getSnapshotPreviews"
        => /\ Len(lastCall.returned) = Len(snapshots)
           /\ \A i \in 1..Len(snapshots) :
                /\ lastCall.returned[i].fileCount
                        = Cardinality(KeySet(snapshots[i].trackedFileBackups))
                /\ IF i = 1 THEN "changes" \notin DOMAIN lastCall.returned[i]
                   ELSE lastCall.returned[i].changes.filesChanged
                            = Cardinality(Differing(snapshots[i].trackedFileBackups,
                                                    snapshots[i - 1].trackedFileBackups))

ReadOnlyOps == {"rewindToMessage", "dryRun", "previewRewind", "getSnapshotPreviews"}

\* C32: the snapshot list only grows, by one snapshot appended by a
\* createSnapshot that returns it; rewindToMessage, previewRewind and
\* getSnapshotPreviews leave the list and the pending set as they are, trackFile
\* and trackNewFile leave the list as it is; a message that has a snapshot
\* keeps having one.
C32_SnapshotsAppendOnly ==
    [][steps' # steps =>
        /\ IsPrefix(snapshots, snapshots')
        /\ snapshots' # snapshots
            => /\ Len(snapshots') = Len(snapshots) + 1
               /\ lastCall'.op = "createSnapshot" /\ lastCall'.returned = "snapshot"
        /\ lastCall'.op \in ReadOnlyOps => UNCHANGED <<snapshots, pendingBackups>>
        /\ \A p \in Paths : (ListTrackFile(p) \/ ListTrackNewFile(p)) => UNCHANGED snapshots
        /\ \A m \in Used : hasSnapshot(m)']_vars

C32_Witness ==
    /\ Rewound /\ lastCall.result.success
    /\ findIndex(lastCall.messageId) = 1
    /\ Len(snapshots) = 2
    /\ hasSnapshot(snapshots[2].messageId)

\* the working file of p is created, deleted or rewritten by the step
Touched(p) ==
    \/ existsSync(files, p) # existsSync(files', p)
    \/ existsSync(files, p) /\ files'[p] # files[p]

\* the paths recorded by the snapshot at position idx or by a later one
RecordedFrom(idx) ==
    UNION {KeySet(snapshots[i].trackedFileBackups) : i \in idx..Len(snapshots)}

\* C33: a dry-run rewindToMessage and a previewRewind in either mode leave
\* every working file and every backup blob as they are; a real
\* rewindToMessage(m) leaves the backup blobs as they are and touches only
\* working files recorded by the snapshot of m or a later one whose diff
\* against the target is not zero.
C33_RewindFrame ==
    [][steps' # steps =>
        /\ lastCall'.op \in {"dryRun", "previewRewind"} => UNCHANGED <<files, blobs>>
        /\ \A m \in Used \cup {Fresh} :
            ListRewind(m)
                => /\ blobs' = blobs
                   /\ \A p \in Paths :
                        Touched(p)
                            => /\ findIndex(m) # 0
                               /\ p \in RecordedFrom(findIndex(m))
                               /\ LET diff == calculateDiff(files, p,
                                        targetBackupFileName(snapshots[findIndex(m)], p))
                                  IN  diff.insertions > 0 \/ diff.deletions > 0]_vars

C33_Witness ==
    /\ lastCall.op = "dryRun"
    /\ lastCall.result.success
    /\ lastCall.result.filesChanged # <<>>
    /\ rewindToMessage(lastCall.messageId, FALSE).files # files

\* the diff of p against what the snapshot of m records for it is not zero
Differs(m, p) ==
    LET diff == calculateDiff(files, p, targetBackupFileName(snapshots[findIndex(m)], p))
    IN  diff.insertions > 0 \/ diff.deletions > 0

\* C36 (as claimed): rewindToMessage and previewRewind, cumulative or not, list
\* a path in filesChanged only if its diff against the target backup has an
\* insertion or a deletion.
C36_ListedOnlyIfDiffers ==
    [][(/\ steps' # steps
        /\ lastCall'.op \in {"rewindToMessage", "dryRun", "previewRewind"}
        /\ findIndex(lastCall'.messageId) # 0)
        => \A p \in Range(lastCall'.result.filesChanged) : Differs(lastCall'.messageId, p)]_vars

\* C36 (amended): rewindToMessage, real or dry-run, and the cumulative
\* previewRewind list a path only if its diff against the target backup has an
\* insertion or a deletion; the non-cumulative previewRewind lists every path
\* the chosen snapshot records, in the snapshot's order, whatever its diff.
C36_ListedOnlyIfDiffersUnlessOwn ==
    [][(/\ steps' # steps
        /\ lastCall'.op \in {"rewindToMessage", "dryRun", "previewRewind"}
        /\ findIndex(lastCall'.messageId) # 0)
        => IF lastCall'.op = "previewRewind" /\ ~lastCall'.cumulative
           THEN lastCall'.result.filesChanged
                    = Keys(snapshots[findIndex(lastCall'.messageId)].trackedFileBackups)
           ELSE \A p \in Range(lastCall'.result.filesChanged) :
                    Differs(lastCall'.messageId, p)]_vars

C36_Witness ==
    /\ Rewound /\ lastCall.result.success
    /\ lastCall.result.filesChanged # <<>>
    /\ RecordedFrom(findIndex(lastCall.messageId)) \ Range(lastCall.result.filesChanged) # {}

\* C35: a blob that a snapshot references by a present backup name keeps its
\* content through every later operation.
C35_ReferencedBlobsImmutable ==
    [][\A i \in 1..Len(snapshots) :
        \A k \in 1..Len(snapshots[i].trackedFileBackups) :
            LET name == snapshots[i].trackedFileBackups[k].meta.backupFileName
            IN  (name # Null /\ existsSync(blobs, name))
                    => /\ existsSync(blobs', name)
                       /\ blobs'[name].content = blobs[name].content]_vars

\* C37: installing a history for the session through the loadFromSession
\* request leaves the session's pending backups as they are, so that the next
\* createSnapshot commits them.
C37_SetKeepsPending ==
    [][(steps' # steps /\ lastCall'.op = "set" /\ lastCall'.sessionId = SessionId)
        => pendingBackups' = pendingBackups]_vars

\* C38: filterMessages applied to its own output returns that output.
C38_FilterIdempotent ==
    Loaded => filterMessages(lastCall.returned) = lastCall.returned

\* C39: when every tool-result on the active path answers a tool invocation on
\* the active path, every tool-result id of a retained tool message is the id
\* of a tool invocation of a retained assistant message.
C39_NoOrphanToolResult ==
    (Loaded /\ getToolResultIds(filteredByPath(messageTypeOnly(journal)))
                    \subseteq getToolUseIds(filteredByPath(messageTypeOnly(journal))))
        => getToolResultIds(lastCall.returned) \subseteq getToolUseIds(lastCall.returned)

\* C40: filterMessages terminates on every finite message list, cycles of
\* parentUuid links, duplicate uuids and dangling parents included. An
\* iteration of the walk is determined by the message it is at, so the walk
\* ends exactly when no iteration starts at a message that is already on the
\* active path: it is never at such a message.
C40_WalkNeverRevisits ==
    walk.pc = "loop" => walk.currentMessage.uuid \notin walk.activePath

\* C40, as a temporal statement: a walk that has started ends
C40_WalkEnds == (walk.pc = "loop") ~> (walk.pc = "done")

\* a walk that has ended collected the active path
WalkDoneIsActivePath ==
    (walk.pc = "done" /\ journal # <<>>)
        => walk.activePath = activePath(messageTypeOnly(journal))

\* C34: a step changes, of the sessions the manager holds, only the session it
\* acts on: every other session keeps its snapshot list, its pending set and
\* every blob of its backup directory.
C34_SessionsIsolated ==
    [][\A s \in Sessions :
            (s \in DOMAIN instances /\ s # current')
                => /\ ObjectOf(s)'.snapshots = ObjectOf(s).snapshots
                   /\ ObjectOf(s)'.pendingBackups = ObjectOf(s).pendingBackups
                   /\ Directory(backupDir(s))' = Directory(backupDir(s))]_vars

\* both sessions hold a snapshot that records a.txt under the same backup name,
\* with different content in the two directories
C34_Witness ==
    /\ DOMAIN instances = Sessions
    /\ \A s \in Sessions :
            /\ ObjectOf(s).snapshots # <<>>
            /\ Has(ObjectOf(s).snapshots[1].trackedFileBackups, "a.txt")
    /\ \E name \in DOMAIN Directory(backupDir("s1")) \cap DOMAIN Directory(backupDir("s2")) :
            Directory(backupDir("s1"))[name].content
                # Directory(backupDir("s2"))[name].content

====
